---- MODULE Spec2Model ----
(***************************************************************************)
(* Request signing, the authenticated REST transport (ripio_api_utils.py)  *)
(* and the WebSocket ticket flow (test_websocket.py).                      *)
(*                                                                         *)
(* Strings are TLC strings, so concatenation is real concatenation.        *)
(* HMAC-SHA256 and base64 are library code: they are kept as injective     *)
(* constructors over (key, message), the usual symbolic treatment.         *)
(* Python values are tagged records: [t |-> "None"], [t |-> "str", ...],   *)
(* [t |-> "dict", f |-> <a function from keys to values>].                 *)
(***************************************************************************)
EXTENDS Naturals, Sequences, FiniteSets, TLC

VARIABLES
    clock,      \* the wall clock, in milliseconds (time.time() * 1000)
    env,        \* os.environ: RIPIO_API_KEY and RIPIO_API_SECRET, None when unset
    \* ---- an example script and its threads of control
    creds,      \* what get_api_credentials returned to the script
    exPc,       \* position of the script: "start", "ready", "aborted"
    parked,     \* the locals of the make_request call that is not running
    siteReq,    \* the last request test_auth.py or test_create_cancel_order.py sent
    wdPc,       \* position of create_real_withdrawal_with_confirmation
    wd,         \* its locals: currency, fees_response, confirmation, and its calls
    ocPc,       \* position of test_create_and_cancel_order (example script)
    oc,         \* its locals: create_response, order_id, cancel_response, result
    \* ---- one make_request call (ripio_api_utils.py)
    pc,         \* position of the call
    args,       \* the arguments of make_request
    payload,    \* local `payload` of make_request
    timestamp,  \* local `timestamp` of create_auth_headers
    clockReads, \* number of time.time() calls made by create_auth_headers
    sigArgs,    \* the arguments generate_signature was called with
    message,    \* local `message` of generate_signature (what is hashed)
    signature,  \* local `signature` of create_auth_headers
    headers,    \* first element returned by create_auth_headers
    retTs,      \* second element returned by create_auth_headers
    wire,       \* the HTTP request put on the wire, if any
    sends,      \* number of HTTP requests put on the wire by this call
    response,   \* what requests.<verb>() produced: a response or an exception
    result,     \* the value make_request returned
    printed,    \* the diagnostics make_request printed, in order
    prev,       \* how the caller's previous make_request call ended
    \* ---- generate_signature applied as a function
    sigIn,      \* the argument tuple under test
    sigOuts,    \* the results of the successive calls on sigIn
    sigMsgs,    \* the messages those calls hashed
    sigAt,      \* the wall clock at each of those calls
    sigAlt,     \* a second argument tuple, to compare with the first
    altOut,     \* the message hashed and the result of the call on sigAlt
    \* ---- the WebSocket flow (test_websocket.py)
    wsPc,       \* position of main / get_websocket_ticket / connect_and_subscribe
    wsCreds,    \* api_key, api_secret read by main
    wsHttp,     \* the ticket request put on the wire, if any
    wsHttpSends,\* number of HTTP requests sent by get_websocket_ticket
    wsResp,     \* the ticket endpoint's answer
    ticket,     \* what get_websocket_ticket returned
    invoked,    \* whether main called connect_and_subscribe
    connArg,    \* the ticket argument connect_and_subscribe was called with
    handshake,  \* the headers passed to websockets.connect
    connects,   \* number of websockets.connect attempts
    sock,       \* the socket: "none", "open", "closed"
    subMsg,     \* the subscribe message sent on the socket, if any
    inbox,      \* messages the server sent that were not received yet
    peerClosed, \* the server dropped the connection
    recvWait,   \* the timeout of the receive in progress ("none": no receive)
    acks,       \* acknowledgement messages received
    attempts,   \* streaming receive attempts started
    lastRecv,   \* outcome of the last streaming receive
    timeouts,   \* streaming receives that ended by the timeout
    wsExit,     \* how the flow ended
    connRet,    \* what connect_and_subscribe returned to main
    connPrinted \* the last line connect_and_subscribe printed on its way out

restVars == <<pc, args, payload, timestamp, clockReads, sigArgs, message,
              signature, headers, retTs, wire, sends, response, result, printed,
              prev>>
scVars == <<wdPc, wd, ocPc, oc>>
exVars == <<creds, exPc, parked, siteReq, scVars>>
fnVars == <<sigIn, sigOuts, sigMsgs, sigAt, sigAlt, altOut>>
wsVars == <<wsPc, wsCreds, wsHttp, wsHttpSends, wsResp, ticket, invoked, connArg,
            handshake, connects, sock, subMsg, inbox, peerClosed, recvWait, acks,
            attempts, lastRecv, timeouts, wsExit, connRet, connPrinted>>
vars == <<clock, env, exVars, restVars, fnVars, wsVars>>

----------------------------------------------------------------------------
(* Bounds of the model *)

\* the wall clock runs from 9 (one digit) up to MaxClock (two digits)
MaxClock == 11
\* how many times generate_signature is applied to one argument tuple
MaxSigCalls == 2
\* how many messages the server may push on the socket
MaxInbox == 4

----------------------------------------------------------------------------
(* Python values *)

PyNone == [t |-> "None"]
PyStr(s) == [t |-> "str", s |-> s]
PyInt(n) == [t |-> "int", n |-> n]
PyDict(f) == [t |-> "dict", f |-> f]
PyBool(b) == [t |-> "bool", b |-> b]
PyTuple(x) == [t |-> "tuple", x |-> x]
\* the place of a return value while the function has not returned
NotReturned == [t |-> "pending"]
EmptyFn == [k \in {} |-> PyNone]

\* Python truthiness of the values the model uses (bool(x))
Truthy(v) ==
    CASE v.t = "None" -> FALSE
      [] v.t = "str" -> v.s # ""
      [] v.t = "dict" -> DOMAIN v.f # {}
      [] OTHER -> TRUE

\* a value that can be sliced (ticket[:10])
Sliceable(v) == v.t = "str"

\* `k in v` for a dict; any other container model raises TypeError
HasKey(v, k) == v.t = "dict" /\ k \in DOMAIN v.f

\* str(n) for a natural number: its decimal digits
Digit(d) == <<"0", "1", "2", "3", "4", "5", "6", "7", "8", "9">>[d + 1]
RECURSIVE Str(_)
Str(n) == IF n < 10 THEN Digit(n) ELSE Str(n \div 10) \o Digit(n % 10)

\* str(int(time.time() * 1000))
NowMs == Str(clock)

\* f"{v}" for an int or a str
Format(v) == IF v.t = "int" THEN Str(v.n) ELSE v.s

----------------------------------------------------------------------------
(* JSON serialisation of a request body: json.dumps(data, separators=...)  *)
(* A body object is an ordered sequence of <<key, value>> string pairs.    *)

Quote(s) == "\"" \o s \o "\""

RECURSIVE DumpsItems(_, _, _)
DumpsItems(obj, itemSep, keySep) ==
    IF obj = <<>> THEN ""
    ELSE Quote(Head(obj)[1]) \o keySep \o Quote(Head(obj)[2])
         \o (IF Tail(obj) = <<>> THEN ""
             ELSE itemSep \o DumpsItems(Tail(obj), itemSep, keySep))

Dumps(obj, itemSep, keySep) == "{" \o DumpsItems(obj, itemSep, keySep) \o "}"

\* a `data` argument: None, or a dict
NoData == [some |-> FALSE, obj |-> <<>>]
SomeData(obj) == [some |-> TRUE, obj |-> obj]
\* `if data:`
DataTruthy(d) == d.some /\ d.obj # <<>>

----------------------------------------------------------------------------
(* generate_signature *)

Hmac(key, msg) == [alg |-> "HMAC-SHA256", key |-> key, msg |-> msg]
B64(digest) == [enc |-> "base64", of |-> digest]

\* a message that leaves the payload out
MessageNoPayload(ts, method, path, body) == Format(ts) \o method \o path

MessageSep(ts, method, path, body) ==
    Format(ts) \o "\n" \o method \o "\n" \o path \o "\n" \o body

\* line 25: message = f"{timestamp}{method}{path}{payload}"
Message(ts, method, path, body) == Format(ts) \o method \o path \o body

GenerateSignatureImpure(secret, ts, method, path, body) ==
    B64(Hmac(secret, Message(PyStr(NowMs), method, path, body)))

\* lines 28-35: base64 of the HMAC-SHA256 digest of the message under the secret

GenerateSignature(secret, ts, method, path, body) ==
    B64(Hmac(secret, Message(ts, method, path, body)))

NoSigArgs == [secret |-> "", ts |-> PyStr(""), method |-> "", path |-> "", payload |-> ""]

----------------------------------------------------------------------------
(* make_request and create_auth_headers (ripio_api_utils.py)               *)

ApiKey == "k3y"
ApiSecret == "s3cr3t"

BaseUrl == "https://api.ripiotrade.co/v4"
Url(endpoint) == BaseUrl \o endpoint
Path(endpoint) == "/v4" \o endpoint

\* payload = ""; if data: payload = json.dumps(data, separators=(',', ':'))
PreparePayload(data) == IF DataTruthy(data) THEN Dumps(data.obj, ",", ":") ELSE ""

NoHeaders == [ContentType |-> "", Authorization |-> "", timestamp |-> "",
              signature |-> B64(Hmac("", ""))]
NoWire == [verb |-> "", url |-> "", headers |-> NoHeaders, query |-> <<>>, body |-> ""]
NoResponse == [kind |-> "none"]

Methods == {"GET", "POST", "DELETE", "PUT"}
Endpoints == {"/orders"}
ParamSets == {<<>>, <<<<"pair", "BTC_USDC">>>>}
DataArgs == {NoData, SomeData(<<>>), SomeData(<<<<"id", "A1">>>>),
             SomeData(<<<<"pair", "BTCUSD">>, <<"side", "buy">>>>)}

\* response bodies: the raw text, whether it is a JSON document, and the
\* Python value response.json() yields for it
JsonBody(text, value) == [isJson |-> TRUE, text |-> text, value |-> value]
RawBody(text) == [isJson |-> FALSE, text |-> text, value |-> PyNone]
OrderBody == JsonBody("{\"data\":{\"id\":\"A1\"}}",
                      PyDict([data |-> PyDict([id |-> PyStr("A1")])]))
ErrorBody == JsonBody("{\"error\":\"denied\"}", PyDict([error |-> PyStr("denied")]))
NullBody == JsonBody("null", PyNone)
HtmlBody == RawBody("<html>")
Bodies == {OrderBody, ErrorBody, NullBody, HtmlBody}
Statuses == {200, 201, 401, 500}
TransportErrors == {"ConnectionError", "Timeout"}

\* what the caller holds once a call has ended: whether it returned or raised,
\* and the returned value; `via` is what happened on the wire, which the
\* caller does not see
NoOutcome == [ended |-> "none", via |-> "none", value |-> PyNone]
Outcome == [ended |-> pc, via |-> response.kind, value |-> result]

RestIdle ==
    /\ pc = "idle"
    /\ args = [key |-> "", secret |-> "", method |-> "", endpoint |-> "",
               params |-> <<>>, data |-> NoData]
    /\ payload = ""
    /\ timestamp = ""
    /\ clockReads = 0
    /\ sigArgs = NoSigArgs
    /\ message = ""
    /\ signature = B64(Hmac("", ""))
    /\ headers = NoHeaders
    /\ retTs = ""
    /\ wire = NoWire
    /\ sends = 0
    /\ response = NoResponse
    /\ result = PyNone
    /\ printed = <<>>
    /\ prev = NoOutcome

----------------------------------------------------------------------------
(* The example scripts: credentials, then make_request calls               *)

\* a get_api_credentials that hands back whatever the environment holds
GetApiCredentialsUnchecked(e) == PyTuple(<<e.key, e.secret>>)

\* get_api_credentials, lines 127-140: the pair read from the environment,
\* or (None, None) when either value is missing or empty
GetApiCredentials(e) ==
    IF ~Truthy(e.key) \/ ~Truthy(e.secret)
    THEN PyTuple(<<PyNone, PyNone>>)
    ELSE PyTuple(<<e.key, e.secret>>)

\* the guard of every example script: `if not api_key or not api_secret: return`
CredsUsable(c) == Truthy(c.x[1]) /\ Truthy(c.x[2])

\* the locals of the running make_request call
Locals ==
    [pc |-> pc, args |-> args, payload |-> payload, timestamp |-> timestamp,
    clockReads |-> clockReads, sigArgs |-> sigArgs, message |-> message,
    signature |-> signature, headers |-> headers, retTs |-> retTs, wire |->
    wire, sends |-> sends, response |-> response, result |-> result, printed
    |-> printed]

\* the locals of a call that was not entered yet
NoCall ==
    [pc |-> "idle",
     args |-> [key |-> "", secret |-> "", method |-> "", endpoint |-> "",
               params |-> <<>>, data |-> NoData],
     payload |-> "", timestamp |-> "", clockReads |-> 0, sigArgs |-> NoSigArgs,
     message |-> "", signature |-> B64(Hmac("", "")), headers |-> NoHeaders,
     retTs |-> "", wire |-> NoWire, sends |-> 0, response |-> NoResponse,
     result |-> PyNone, printed |-> <<>>]

\* a script that has not read its credentials yet
\* the locals of the two example scripts before they run
NoWd == [currency |-> "", fees |-> NotReturned, feeResp |-> NoResponse,
         confirmation |-> "", posts |-> 0, exit |-> "running"]
NoOc == [create |-> NotReturned, orderId |-> PyNone, cancel |-> NotReturned,
         creates |-> 0, cancels |-> 0, ret |-> NotReturned]
ScIdle == wdPc = "start" /\ wd = NoWd /\ ocPc = "start" /\ oc = NoOc

\* no request was sent by a test script
NoSiteReq == [site |-> "none", secret |-> "", endpoint |-> "", wire |-> NoWire]

ExStart ==
    /\ creds = NotReturned
    /\ exPc = "start"
    /\ parked = NoCall
    /\ siteReq = NoSiteReq
    /\ ScIdle

\* a caller that holds a key and a secret
ExReady ==
    /\ creds = PyTuple(<<PyStr(ApiKey), PyStr(ApiSecret)>>)
    /\ exPc = "ready"
    /\ parked = NoCall
    /\ siteReq = NoSiteReq
    /\ ScIdle

\* the first lines of every example script: the credentials are fetched with
\* get_api_credentials and the script returns when they are not usable
GetCredentials ==
    /\ exPc = "start"
    /\ creds' = GetApiCredentials(env)
    /\ exPc' = IF CredsUsable(GetApiCredentials(env)) THEN "ready" ELSE "aborted"
    /\ UNCHANGED <<clock, env, parked, siteReq, scVars, restVars, fnVars, wsVars>>

\* two threads call make_request: the interpreter hands control to the other
\* thread, whose frame holds its own locals
Switch ==
    /\ exPc = "ready"
    /\ parked' = Locals
    /\ pc' = parked.pc
    /\ args' = parked.args
    /\ payload' = parked.payload
    /\ timestamp' = parked.timestamp
    /\ clockReads' = parked.clockReads
    /\ sigArgs' = parked.sigArgs
    /\ message' = parked.message
    /\ signature' = parked.signature
    /\ headers' = parked.headers
    /\ retTs' = parked.retTs
    /\ wire' = parked.wire
    /\ sends' = parked.sends
    /\ response' = parked.response
    /\ result' = parked.result
    /\ printed' = parked.printed
    /\ UNCHANGED <<clock, env, creds, exPc, siteReq, scVars, prev, fnVars, wsVars>>

\* the wall clock advances; nothing else changes
Tick ==
    /\ clock < MaxClock
    /\ clock' = clock + 1
    /\ UNCHANGED <<env, exVars, restVars, fnVars, wsVars>>

\* make_request is entered: lines 77-84
Enter(method, endpoint, params, data) ==
    /\ exPc = "ready"
    /\ pc \in {"idle", "returned", "raised"}
    /\ pc' = "prepared"
    /\ args' = [key |-> creds.x[1].s, secret |-> creds.x[2].s, method |-> method,
                endpoint |-> endpoint, params |-> params, data |-> data]
    /\ payload' = PreparePayload(data)
    /\ timestamp' = ""
    /\ clockReads' = 0
    /\ sigArgs' = NoSigArgs
    /\ message' = ""
    /\ signature' = B64(Hmac("", ""))
    /\ headers' = NoHeaders
    /\ retTs' = ""
    /\ wire' = NoWire
    /\ sends' = 0
    /\ response' = NoResponse
    /\ result' = PyNone
    /\ printed' = <<>>
    /\ prev' = IF pc = "idle" THEN NoOutcome ELSE Outcome

\* a call of make_request by a caller the model does not follow further
Call(method, endpoint, params, data) ==
    /\ Enter(method, endpoint, params, data)
    /\ UNCHANGED <<clock, env, exVars, fnVars, wsVars>>

\* create_auth_headers, line 50: timestamp = str(int(time.time() * 1000))
ReadClock ==
    /\ pc = "prepared"
    /\ pc' = "clock_read"
    /\ timestamp' = NowMs
    /\ clockReads' = clockReads + 1
    /\ UNCHANGED <<clock, env, exVars, args, payload, sigArgs, message, signature, headers,
                   retTs, wire, sends, response, result, printed, prev, fnVars, wsVars>>

\* create_auth_headers, line 52: the call of generate_signature
Sign ==
    /\ pc = "clock_read"
    /\ pc' = "signed"
    /\ sigArgs' = [secret |-> args.secret, ts |-> PyStr(timestamp), method |-> args.method,
                   path |-> Path(args.endpoint), payload |-> payload]
    /\ message' = Message(PyStr(timestamp), args.method, Path(args.endpoint), payload)
    /\ signature' = GenerateSignature(args.secret, PyStr(timestamp), args.method,
                                      Path(args.endpoint), payload)
    /\ UNCHANGED <<clock, env, exVars, args, payload, timestamp, clockReads, headers, retTs,
                   wire, sends, response, result, printed, prev, fnVars, wsVars>>

\* a create_auth_headers that reads the clock again for the header
BuildHeadersRereadClock ==
    /\ pc = "signed"
    /\ pc' = "headers"
    /\ clockReads' = clockReads + 1
    /\ headers' = [ContentType |-> "application/json", Authorization |-> args.key,
                   timestamp |-> NowMs, signature |-> signature]
    /\ retTs' = timestamp
    /\ UNCHANGED <<clock, env, exVars, args, payload, timestamp, sigArgs, message,
                   signature, wire, sends, response, result, printed, prev, fnVars, wsVars>>

\* a create_auth_headers that authorizes with the secret itself
BuildHeadersSendsSecret ==
    /\ pc = "signed"
    /\ pc' = "headers"
    /\ headers' = [ContentType |-> "application/json", Authorization |-> args.secret,
                   timestamp |-> timestamp, signature |-> signature]
    /\ retTs' = timestamp
    /\ UNCHANGED <<clock, env, exVars, args, payload, timestamp, clockReads, sigArgs, message,
                   signature, wire, sends, response, result, printed, prev, fnVars, wsVars>>

\* a create_auth_headers that keeps the timestamp in a module global, which
\* the other thread's call overwrites
BuildHeadersShared ==
    /\ pc = "signed"
    /\ pc' = "headers"
    /\ headers' = [ContentType |-> "application/json", Authorization |-> args.key,
                   timestamp |-> IF parked.timestamp # "" THEN parked.timestamp
                                 ELSE timestamp,
                   signature |-> signature]
    /\ retTs' = timestamp
    /\ UNCHANGED <<clock, env, exVars, args, payload, timestamp, clockReads, sigArgs, message,
                   signature, wire, sends, response, result, printed, prev, fnVars, wsVars>>

\* create_auth_headers, lines 54-61: the header set and the returned pair
BuildHeaders ==
    /\ pc = "signed"
    /\ pc' = "headers"
    /\ headers' = [ContentType |-> "application/json", Authorization |-> args.key,
                   timestamp |-> timestamp, signature |-> signature]
    /\ retTs' = timestamp
    /\ UNCHANGED <<clock, env, exVars, args, payload, timestamp, clockReads, sigArgs, message,
                   signature, wire, sends, response, result, printed, prev, fnVars, wsVars>>

\* what requests.get / requests.post / requests.delete transmit as the body:
\* get() is given no body, post() and delete() are given data=payload
BodySent(method, body) == IF method = "GET" THEN "" ELSE body

\* the query requests.get appends to the URL (params=params); post/delete: none
QuerySent(method, params) == IF method = "GET" THEN params ELSE <<>>

\* a make_request that hands every method to requests.request
SupportedAny(method) == method \in Methods

\* lines 89-97: the if / elif chain on method
Supported(method) == method \in {"GET", "POST", "DELETE"}

\* make_request, lines 89-99: the request is dispatched, or the method refused
Dispatch ==
    /\ pc = "headers"
    /\ IF Supported(args.method)
       THEN /\ wire' = [verb |-> args.method, url |-> Url(args.endpoint),
                        headers |-> headers,
                        query |-> QuerySent(args.method, args.params),
                        body |-> BodySent(args.method, payload)]
            /\ sends' = sends + 1
            /\ pc' = "sent"
            /\ UNCHANGED <<result, printed>>
       ELSE /\ printed' = Append(printed, "Unsupported HTTP method: " \o args.method)
            /\ result' = PyNone
            /\ pc' = "returned"
            /\ UNCHANGED <<wire, sends>>
    /\ UNCHANGED <<clock, env, exVars, args, payload, timestamp, clockReads, sigArgs, message,
                   signature, headers, retTs, response, prev, fnVars, wsVars>>

\* the server answers with a status line and a body
ServerResponds(status, body) ==
    /\ pc = "sent"
    /\ pc' = "responded"
    /\ response' = [kind |-> "http", status |-> status, body |-> body]
    /\ UNCHANGED <<clock, env, exVars, args, payload, timestamp, clockReads, sigArgs, message,
                   signature, headers, retTs, wire, sends, result, printed, prev, fnVars,
                   wsVars>>

\* no response is obtained: requests raises a RequestException
TransportFails(exc) ==
    /\ pc = "sent"
    /\ pc' = "responded"
    /\ response' = [kind |-> "exc", exc |-> exc]
    /\ UNCHANGED <<clock, env, exVars, args, payload, timestamp, clockReads, sigArgs, message,
                   signature, headers, retTs, wire, sends, result, printed, prev, fnVars,
                   wsVars>>

IsSuccess2xx(status) == status \in 200..299

\* line 104: if response.status_code == 200
IsSuccess(status) == status = 200

\* lines 108-113: the report of a non-200 response
ErrorReport(resp) ==
    <<"API request failed with status code: " \o Str(resp.status),
      IF resp.body.isJson
      THEN "Error response: " \o resp.body.text
      ELSE "Error response text: " \o resp.body.text>>

\* lines 116-125 for an exception that carries no response
ExceptionReport(exc) == <<"Error making request: " \o exc>>

\* make_request, lines 101-114, and lines 116-125 when response.json() raises.
\* response.json() on a body that is no JSON document raises
\* requests.exceptions.JSONDecodeError (a RequestException, caught at line 116)
\* or, with an older requests, a ValueError that leaves make_request.
HandleResponse ==
    /\ pc = "responded"
    /\ response.kind = "http"
    /\ LET status == "Response status code: " \o Str(response.status) IN
       IF IsSuccess(response.status)
       THEN IF response.body.isJson
            THEN /\ result' = response.body.value
                 /\ printed' = Append(printed, status)
                 /\ pc' = "returned"
            ELSE \E caught \in BOOLEAN :
                 /\ result' = PyNone
                 /\ printed' = IF caught
                               THEN Append(printed, status)
                                    \o ExceptionReport("JSONDecodeError")
                               ELSE Append(printed, status)
                 /\ pc' = IF caught THEN "returned" ELSE "raised"
       ELSE /\ result' = PyNone
            /\ printed' = Append(printed, status) \o ErrorReport(response)
            /\ pc' = "returned"
    /\ UNCHANGED <<clock, env, exVars, args, payload, timestamp, clockReads, sigArgs, message,
                   signature, headers, retTs, wire, sends, response, prev, fnVars, wsVars>>

\* a make_request that dispatches the request once more after a failure
HandleExceptionRetries ==
    /\ pc = "responded"
    /\ response.kind = "exc"
    /\ result' = PyNone
    /\ printed' = printed \o ExceptionReport(response.exc)
    /\ pc' = IF sends < 2 THEN "headers" ELSE "returned"
    /\ UNCHANGED <<clock, env, exVars, args, payload, timestamp, clockReads, sigArgs, message,
                   signature, headers, retTs, wire, sends, response, prev, fnVars, wsVars>>

\* a make_request without the except clause
HandleExceptionUncaught ==
    /\ pc = "responded"
    /\ response.kind = "exc"
    /\ pc' = "raised"
    /\ UNCHANGED <<clock, env, exVars, args, payload, timestamp, clockReads, sigArgs, message,
                   signature, headers, retTs, wire, sends, response, result, printed,
                   prev, fnVars, wsVars>>

\* make_request, lines 116-125: except requests.exceptions.RequestException
HandleException ==
    /\ pc = "responded"
    /\ response.kind = "exc"
    /\ result' = PyNone
    /\ printed' = printed \o ExceptionReport(response.exc)
    /\ pc' = "returned"
    /\ UNCHANGED <<clock, env, exVars, args, payload, timestamp, clockReads, sigArgs, message,
                   signature, headers, retTs, wire, sends, response, prev, fnVars, wsVars>>

----------------------------------------------------------------------------
(* generate_signature applied to an argument tuple, several times, while   *)
(* the clock runs                                                          *)

SigInputs ==
    [secret : {"s3cr3t", "k"}, ts : {PyInt(9), PyStr("10")}, method : {"GET", "POST"},
     path : {"/v4/orders", "/v4/ticket"}, payload : {"", "{\"id\":\"A1\"}"}]

\* one call of generate_signature(sigIn): lines 25-35
SigCall ==
    /\ sigIn # NoSigArgs
    /\ Len(sigOuts) < MaxSigCalls
    /\ sigMsgs' = Append(sigMsgs, Message(sigIn.ts, sigIn.method, sigIn.path,
                                          sigIn.payload))
    /\ sigOuts' = Append(sigOuts, GenerateSignature(sigIn.secret, sigIn.ts,
                                     sigIn.method, sigIn.path, sigIn.payload))
    /\ sigAt' = Append(sigAt, clock)
    /\ UNCHANGED <<clock, env, exVars, sigIn, sigAlt, altOut, restVars, wsVars>>

\* one call of generate_signature(sigAlt): lines 25-35
SigCallAlt ==
    /\ sigAlt # NoSigArgs
    /\ ~altOut.done
    /\ altOut' = [msg |-> Message(sigAlt.ts, sigAlt.method, sigAlt.path, sigAlt.payload),
                  sig |-> GenerateSignature(sigAlt.secret, sigAlt.ts, sigAlt.method,
                                            sigAlt.path, sigAlt.payload),
                  done |-> TRUE]
    /\ UNCHANGED <<clock, env, exVars, sigIn, sigOuts, sigMsgs, sigAt, sigAlt, restVars,
                   wsVars>>

----------------------------------------------------------------------------
(* The WebSocket flow (test_websocket.py): main, get_websocket_ticket,     *)
(* connect_and_subscribe.  The flow is one coroutine: an action is the     *)
(* code between two points where it waits for the network.                 *)

WssUrl == "wss://ws.ripiotrade.co"

\* the number of streaming receive attempts: for _ in range(3)
RecvBudget == 3

\* os.environ.get gives None for a variable that is not set
FullEnv == [key |-> PyStr(ApiKey), secret |-> PyStr(ApiSecret)]
Envs == [key : {PyNone, PyStr(""), PyStr(ApiKey)},
         secret : {PyNone, PyStr(""), PyStr(ApiSecret)}]

NoHandshake == [Authorization |-> "", timestamp |-> "", signature |-> B64(Hmac("", ""))]
NoSubMsg == [method |-> "", topics |-> <<>>, ticket |-> PyNone, id |-> 0]

TicketBody(text, value) == JsonBody(text, PyDict([data |-> PyDict([ticket |-> value])]))
TicketBodies ==
    {TicketBody("{\"data\":{\"ticket\":\"T1\"}}", PyStr("T1")),
     TicketBody("{\"data\":{\"ticket\":\"\"}}", PyStr("")),
     TicketBody("{\"data\":{\"ticket\":null}}", PyNone),
     JsonBody("{\"data\":{}}", PyDict([data |-> PyDict(EmptyFn)])),
     JsonBody("{\"data\":null}", PyDict([data |-> PyNone])),
     ErrorBody, NullBody, HtmlBody}

WsIdle ==
    /\ wsPc = "start"
    /\ wsCreds = [key |-> PyNone, secret |-> PyNone]
    /\ wsHttp = NoWire
    /\ wsHttpSends = 0
    /\ wsResp = NoResponse
    /\ ticket = PyNone
    /\ invoked = FALSE
    /\ connArg = PyNone
    /\ handshake = NoHandshake
    /\ connects = 0
    /\ sock = "none"
    /\ subMsg = NoSubMsg
    /\ inbox = 0
    /\ peerClosed = FALSE
    /\ recvWait = "none"
    /\ acks = 0
    /\ attempts = 0
    /\ lastRecv = "none"
    /\ timeouts = 0
    /\ wsExit = "running"
    /\ connRet = NotReturned
    /\ connPrinted = ""

\* an inline signing that leaves the API version out of the path
WsMessageNoVersion(ts, method, path) == ts \o method \o "/" \o path

\* the inline signing of test_websocket.py, lines 31-38 and 87-94:
\* message = timestamp + method + '/v4/' + path
WsMessage(ts, method, path) == ts \o method \o "/v4/" \o path
WsSignature(secret, ts, method, path) == B64(Hmac(secret, WsMessage(ts, method, path)))

\* main, lines 138-143: the credentials are read and checked
WsStart ==
    /\ wsPc = "start"
    /\ wsCreds' = env
    /\ IF ~Truthy(env.key) \/ ~Truthy(env.secret)
       THEN /\ wsPc' = "done"
            /\ wsExit' = "no_credentials" /\ UNCHANGED <<connRet, connPrinted>>
       ELSE /\ wsPc' = "ticket_call"
            /\ UNCHANGED <<wsExit, connRet, connPrinted>>
    /\ UNCHANGED <<clock, env, exVars, restVars, fnVars, wsHttp, wsHttpSends, wsResp, ticket,
                   invoked, connArg, handshake, connects, sock, subMsg, inbox,
                   peerClosed, recvWait, acks, attempts, lastRecv, timeouts>>

\* get_websocket_ticket, lines 21-51: the signed POST is sent
TicketRequest ==
    /\ wsPc = "ticket_call"
    /\ wsPc' = "ticket_wait"
    /\ wsHttp' = [verb |-> "POST", url |-> BaseUrl \o "/ticket",
                  headers |-> [ContentType |-> "application/json",
                               Authorization |-> wsCreds.key.s,
                               timestamp |-> NowMs,
                               signature |-> WsSignature(wsCreds.secret.s, NowMs,
                                                         "POST", "ticket")],
                  query |-> <<>>, body |-> ""]
    /\ wsHttpSends' = wsHttpSends + 1
    /\ UNCHANGED <<clock, env, exVars, restVars, fnVars, wsCreds, wsResp, ticket, invoked,
                   connArg, handshake, connects, sock, subMsg, inbox, peerClosed,
                   recvWait, acks, attempts, lastRecv, timeouts, wsExit, connRet, connPrinted>>

\* the ticket endpoint answers, or the transport fails
TicketAnswer(resp) ==
    /\ wsPc = "ticket_wait"
    /\ wsPc' = "ticket_resp"
    /\ wsResp' = resp
    /\ UNCHANGED <<clock, env, exVars, restVars, fnVars, wsCreds, wsHttp, wsHttpSends, ticket,
                   invoked, connArg, handshake, connects, sock, subMsg, inbox,
                   peerClosed, recvWait, acks, attempts, lastRecv, timeouts, wsExit, connRet, connPrinted>>

TicketAnswers ==
    [kind : {"http"}, status : Statuses, body : TicketBodies]
        \cup [kind : {"exc"}, exc : TransportErrors]

\* response.raise_for_status(): HTTPError for a 4xx or 5xx status
RaisesForStatus(status) == status \in 400..599

\* lines 55-63 on the parsed body: the ticket returned, or a TypeError
\* ('in' applied to None, or None[:10])
ExtractTicket(data) ==
    IF data.t # "dict" THEN [error |-> TRUE, ticket |-> PyNone]
    ELSE IF ~HasKey(data, "data") THEN [error |-> FALSE, ticket |-> PyNone]
    ELSE IF data.f["data"].t # "dict" THEN [error |-> TRUE, ticket |-> PyNone]
    ELSE IF ~HasKey(data.f["data"], "ticket") THEN [error |-> FALSE, ticket |-> PyNone]
    ELSE IF ~Sliceable(data.f["data"].f["ticket"]) THEN [error |-> TRUE, ticket |-> PyNone]
    ELSE [error |-> FALSE, ticket |-> data.f["data"].f["ticket"]]

\* get_websocket_ticket, lines 52-74: the answer is turned into a ticket or
\* None; an exception that is no RequestException leaves main
TicketHandle ==
    /\ wsPc = "ticket_resp"
    /\ \/ /\ \/ wsResp.kind = "exc"
             \/ wsResp.kind = "http" /\ RaisesForStatus(wsResp.status)
          /\ ticket' = PyNone
          /\ wsPc' = "ticket_done"
          /\ UNCHANGED <<wsExit, connRet, connPrinted>>
       \/ /\ wsResp.kind = "http" /\ ~RaisesForStatus(wsResp.status)
          /\ ~wsResp.body.isJson
          /\ ticket' = PyNone
          /\ \E caught \in BOOLEAN :
                IF caught
                THEN wsPc' = "ticket_done" /\ UNCHANGED <<wsExit, connRet, connPrinted>>
                ELSE wsPc' = "done" /\ wsExit' = "crashed" /\ UNCHANGED <<connRet, connPrinted>>
       \/ /\ wsResp.kind = "http" /\ ~RaisesForStatus(wsResp.status)
          /\ wsResp.body.isJson
          /\ LET got == ExtractTicket(wsResp.body.value) IN
             /\ ticket' = got.ticket
             /\ IF got.error
                THEN wsPc' = "done" /\ wsExit' = "crashed" /\ UNCHANGED <<connRet, connPrinted>>
                ELSE wsPc' = "ticket_done" /\ UNCHANGED <<wsExit, connRet, connPrinted>>
    /\ UNCHANGED <<clock, env, exVars, restVars, fnVars, wsCreds, wsHttp, wsHttpSends, wsResp,
                   invoked, connArg, handshake, connects, sock, subMsg, inbox,
                   peerClosed, recvWait, acks, attempts, lastRecv, timeouts>>

TicketNotChecked(t) == t = t

\* main, line 148: if ticket
TicketUsable(t) == Truthy(t)

\* main, lines 148-152: connect_and_subscribe is called, or the flow ends
MainBranch ==
    /\ wsPc = "ticket_done"
    /\ IF TicketUsable(ticket)
       THEN /\ invoked' = TRUE
            /\ connArg' = ticket
            /\ wsPc' = "connect"
            /\ UNCHANGED <<wsExit, connRet, connPrinted>>
       ELSE /\ wsPc' = "done"
            /\ wsExit' = "no_ticket" /\ UNCHANGED <<connRet, connPrinted>>
            /\ UNCHANGED <<invoked, connArg>>
    /\ UNCHANGED <<clock, env, exVars, restVars, fnVars, wsCreds, wsHttp, wsHttpSends, wsResp,
                   ticket, handshake, connects, sock, subMsg, inbox, peerClosed,
                   recvWait, acks, attempts, lastRecv, timeouts>>

\* the state of the socket after the `async with` block is left by a given way
SockLeakedOnError(how) == IF how = "completed" THEN "closed" ELSE "open"

\* line 104: async with websockets.connect(...) closes the socket on every exit
SockAfterExit(how) == "closed"

\* the ways connect_and_subscribe ends by the except clause of line 133
ConnFailures == {"connect_failed", "send_failed", "ack_failed", "recv_failed"}

\* a connect_and_subscribe that returns False from its except clause
ReturnValueFlagged(how) == IF how \in ConnFailures THEN PyBool(FALSE) ELSE PyNone

\* connect_and_subscribe has no return statement: after line 131 and after
\* line 134 it falls off its end, which returns None
ReturnValue(how) == PyNone

\* the exception each failure raises inside the try block
RaisedBy(how) == IF how = "connect_failed" THEN "OSError" ELSE "ConnectionClosed"

\* line 131, or line 134 in the except clause
ExitReport(how) ==
    IF how \in ConnFailures
    THEN "Error in WebSocket connection: " \o RaisedBy(how)
    ELSE "Test completed"

\* the per-attempt timeout of a streaming receive: wait_for(..., timeout=1.0)
StreamWait == "1.0"

\* connect_and_subscribe is left while the socket is open: by the end of the
\* block (line 131) or by an exception caught at line 133
LeaveWith(how) ==
    /\ wsPc' = "done"
    /\ wsExit' = how
    /\ sock' = SockAfterExit(how)
    /\ recvWait' = "none"
    /\ connRet' = ReturnValue(how)
    /\ connPrinted' = ExitReport(how)

\* line 124, for _ in range(3): the next receive attempt is started, or the
\* loop is over and the function ends
LoopNext ==
    IF attempts < RecvBudget
    THEN /\ attempts' = attempts + 1
         /\ wsPc' = "streaming"
         /\ recvWait' = StreamWait
         /\ UNCHANGED <<sock, wsExit, connRet, connPrinted>>
    ELSE /\ LeaveWith("completed")
         /\ UNCHANGED attempts

\* connect_and_subscribe, lines 80-104: the handshake headers are signed and
\* the socket is opened, or websockets.connect raises (caught at line 133)
Connect ==
    /\ wsPc = "connect"
    /\ handshake' = [Authorization |-> wsCreds.key.s, timestamp |-> NowMs,
                     signature |-> WsSignature(wsCreds.secret.s, NowMs, "GET", "ws")]
    /\ connects' = connects + 1
    /\ \E ok \in BOOLEAN :
          IF ok
          THEN /\ sock' = "open"
               /\ wsPc' = "connected"
               /\ UNCHANGED <<wsExit, connRet, connPrinted>>
          ELSE /\ wsPc' = "done"
               /\ wsExit' = "connect_failed"
               /\ connRet' = ReturnValue("connect_failed")
               /\ connPrinted' = ExitReport("connect_failed")
               /\ UNCHANGED sock
    /\ UNCHANGED <<clock, env, exVars, restVars, fnVars, wsCreds, wsHttp, wsHttpSends, wsResp,
                   ticket, invoked, connArg, subMsg, inbox, peerClosed, recvWait,
                   acks, attempts, lastRecv, timeouts>>

\* a connect_and_subscribe that starts the receive loop right after the send
SubscribeNoAck ==
    /\ wsPc = "connected"
    /\ IF peerClosed
       THEN /\ LeaveWith("send_failed")
            /\ UNCHANGED <<subMsg, attempts>>
       ELSE /\ subMsg' = [method |-> "subscribe", topics |-> <<"balance">>,
                          ticket |-> connArg, id |-> clock]
            /\ wsPc' = "streaming"
            /\ recvWait' = StreamWait
            /\ attempts' = attempts + 1
            /\ UNCHANGED <<sock, wsExit, connRet, connPrinted>>
    /\ UNCHANGED <<clock, env, exVars, restVars, fnVars, wsCreds, wsHttp, wsHttpSends, wsResp,
                   ticket, invoked, connArg, handshake, connects, inbox, peerClosed,
                   acks, lastRecv, timeouts>>

\* a connect_and_subscribe that subscribes with a ticket kept from an earlier run
SubscribeStaleTicket ==
    /\ wsPc = "connected"
    /\ IF peerClosed
       THEN /\ LeaveWith("send_failed")
            /\ UNCHANGED subMsg
       ELSE /\ subMsg' = [method |-> "subscribe", topics |-> <<"balance">>,
                          ticket |-> PyStr("T0"), id |-> clock]
            /\ wsPc' = "await_ack"
            /\ recvWait' = "unbounded"
            /\ UNCHANGED <<sock, wsExit, connRet, connPrinted>>
    /\ UNCHANGED <<clock, env, exVars, restVars, fnVars, wsCreds, wsHttp, wsHttpSends, wsResp,
                   ticket, invoked, connArg, handshake, connects, inbox, peerClosed,
                   acks, attempts, lastRecv, timeouts>>

\* lines 105-119: the subscribe message is sent and the acknowledgement is
\* awaited by a bare websocket.recv(); send raises on a dropped connection
Subscribe ==
    /\ wsPc = "connected"
    /\ IF peerClosed
       THEN /\ LeaveWith("send_failed")
            /\ UNCHANGED subMsg
       ELSE /\ subMsg' = [method |-> "subscribe", topics |-> <<"balance">>,
                          ticket |-> connArg, id |-> clock]
            /\ wsPc' = "await_ack"
            /\ recvWait' = "unbounded"
            /\ UNCHANGED <<sock, wsExit, connRet, connPrinted>>
    /\ UNCHANGED <<clock, env, exVars, restVars, fnVars, wsCreds, wsHttp, wsHttpSends, wsResp,
                   ticket, invoked, connArg, handshake, connects, inbox, peerClosed,
                   acks, attempts, lastRecv, timeouts>>

\* line 119 returns a message: lines 120-126, the first streaming receive starts
AckArrives ==
    /\ wsPc = "await_ack"
    /\ inbox > 0
    /\ inbox' = inbox - 1
    /\ acks' = acks + 1
    /\ LoopNext
    /\ UNCHANGED <<clock, env, exVars, restVars, fnVars, wsCreds, wsHttp, wsHttpSends, wsResp,
                   ticket, invoked, connArg, handshake, connects, subMsg, peerClosed,
                   lastRecv, timeouts>>

\* line 119 raises ConnectionClosed: the connection was dropped, nothing queued
AckFails ==
    /\ wsPc = "await_ack"
    /\ inbox = 0
    /\ peerClosed
    /\ LeaveWith("ack_failed")
    /\ UNCHANGED <<clock, env, exVars, restVars, fnVars, wsCreds, wsHttp, wsHttpSends, wsResp,
                   ticket, invoked, connArg, handshake, connects, subMsg, inbox,
                   peerClosed, acks, attempts, lastRecv, timeouts>>

\* line 126 returns a message within the timeout: line 127, next iteration
StreamMessage ==
    /\ wsPc = "streaming"
    /\ inbox > 0
    /\ inbox' = inbox - 1
    /\ lastRecv' = "message"
    /\ UNCHANGED timeouts
    /\ LoopNext
    /\ UNCHANGED <<clock, env, exVars, restVars, fnVars, wsCreds, wsHttp, wsHttpSends, wsResp,
                   ticket, invoked, connArg, handshake, connects, subMsg, peerClosed,
                   acks>>

\* a loop whose budget counts only the messages received
StreamTimeoutRetries ==
    /\ wsPc = "streaming"
    /\ inbox = 0
    /\ ~peerClosed
    /\ lastRecv' = "timeout"
    /\ UNCHANGED <<clock, env, exVars, restVars, fnVars, wsPc, wsCreds, wsHttp, wsHttpSends,
                   wsResp, ticket, invoked, connArg, handshake, connects, sock, subMsg,
                   inbox, peerClosed, recvWait, acks, attempts, timeouts, wsExit, connRet, connPrinted>>

\* a loop that stops at the first timeout
StreamTimeoutBreaks ==
    /\ wsPc = "streaming"
    /\ inbox = 0
    /\ ~peerClosed
    /\ lastRecv' = "timeout"
    /\ timeouts' = timeouts + 1
    /\ LeaveWith("completed")
    /\ UNCHANGED <<clock, env, exVars, restVars, fnVars, wsCreds, wsHttp, wsHttpSends, wsResp,
                   ticket, invoked, connArg, handshake, connects, subMsg, inbox,
                   peerClosed, acks, attempts>>

\* line 126: nothing arrives within the timeout; lines 128-129, next iteration
StreamTimeout ==
    /\ wsPc = "streaming"
    /\ inbox = 0
    /\ ~peerClosed
    /\ lastRecv' = "timeout"
    /\ timeouts' = timeouts + 1
    /\ LoopNext
    /\ UNCHANGED <<clock, env, exVars, restVars, fnVars, wsCreds, wsHttp, wsHttpSends, wsResp,
                   ticket, invoked, connArg, handshake, connects, subMsg, inbox,
                   peerClosed, acks>>

\* line 126 raises ConnectionClosed: it is no TimeoutError, so line 133 catches it
StreamFails ==
    /\ wsPc = "streaming"
    /\ inbox = 0
    /\ peerClosed
    /\ lastRecv' = "exception"
    /\ UNCHANGED timeouts
    /\ LeaveWith("recv_failed")
    /\ UNCHANGED <<clock, env, exVars, restVars, fnVars, wsCreds, wsHttp, wsHttpSends, wsResp,
                   ticket, invoked, connArg, handshake, connects, subMsg, inbox,
                   peerClosed, acks, attempts>>

\* the server pushes a message on the open socket
ServerSend ==
    /\ sock = "open"
    /\ ~peerClosed
    /\ inbox < MaxInbox
    /\ inbox' = inbox + 1
    /\ UNCHANGED <<clock, env, exVars, restVars, fnVars, wsPc, wsCreds, wsHttp, wsHttpSends,
                   wsResp, ticket, invoked, connArg, handshake, connects, sock, subMsg,
                   peerClosed, recvWait, acks, attempts, lastRecv, timeouts, wsExit, connRet, connPrinted>>

\* the server drops the connection
ServerDrop ==
    /\ sock = "open"
    /\ ~peerClosed
    /\ peerClosed' = TRUE
    /\ UNCHANGED <<clock, env, exVars, restVars, fnVars, wsPc, wsCreds, wsHttp, wsHttpSends,
                   wsResp, ticket, invoked, connArg, handshake, connects, sock, subMsg,
                   inbox, recvWait, acks, attempts, lastRecv, timeouts, wsExit, connRet, connPrinted>>

\* a step that resumes the flow from a message receive
Resume == AckArrives \/ AckFails \/ StreamMessage \/ StreamTimeout \/ StreamFails

----------------------------------------------------------------------------
(* example_withdrawals.py: create_real_withdrawal_with_confirmation.  An   *)
(* action is the code between two calls of make_request.                   *)

\* what the user types at the prompts
Currencies == {"BTC", "ETH"}
Confirmations == {"YES", "yes", "Y", ""}

\* get_withdrawal_fees, line 18
FeeEndpoint(cur) == "/withdrawals/estimate-fee/" \o cur

\* create_withdrawal, lines 76-80
WithdrawalData(cur) ==
    <<<<"currency_code", cur>>, <<"amount", "0.5">>, <<"destination", "addr1">>>>

\* a script that proceeds whatever was typed
ConfirmedAny(c) == TRUE

\* line 375: if confirmation != "YES": return
Confirmed(c) == c = "YES"

\* lines 345-348 and 18-23: the currency is typed and get_withdrawal_fees
\* calls make_request
WdFeeCall(cur) ==
    /\ wdPc = "start"
    /\ Enter("GET", FeeEndpoint(cur), <<>>, NoData)
    /\ wdPc' = "fee_call"
    /\ wd' = [wd EXCEPT !.currency = cur]
    /\ UNCHANGED <<clock, env, creds, exPc, parked, siteReq, ocPc, oc, fnVars, wsVars>>

\* lines 25-53 and 348-352: make_request is back, get_withdrawal_fees hands
\* its value on, and the script stops when that value is falsy
WdFeeReturn ==
    /\ wdPc = "fee_call"
    /\ pc \in {"returned", "raised"}
    /\ IF pc = "raised"
       THEN /\ wdPc' = "done"
            /\ wd' = [wd EXCEPT !.feeResp = response, !.exit = "crashed"]
       ELSE /\ wdPc' = IF Truthy(result) THEN "ask" ELSE "done"
            /\ wd' = [wd EXCEPT !.fees = result, !.feeResp = response,
                                !.exit = IF Truthy(result) THEN @ ELSE "no_fees"]
    /\ UNCHANGED <<clock, env, creds, exPc, parked, siteReq, ocPc, oc, restVars, fnVars,
                   wsVars>>

\* lines 354-388 and 60-101: the amount, the address and the confirmation
\* are typed; float() raises on an amount that is no number; after "YES"
\* create_withdrawal calls make_request
WdConfirm(amountOk, c) ==
    /\ wdPc = "ask"
    /\ IF ~amountOk
       THEN /\ wdPc' = "done"
            /\ wd' = [wd EXCEPT !.exit = "crashed"]
            /\ UNCHANGED restVars
       ELSE IF ~Confirmed(c)
       THEN /\ wdPc' = "done"
            /\ wd' = [wd EXCEPT !.confirmation = c, !.exit = "cancelled"]
            /\ UNCHANGED restVars
       ELSE /\ Enter("POST", "/withdrawals", <<>>, SomeData(WithdrawalData(wd.currency)))
            /\ wdPc' = "post_call"
            /\ wd' = [wd EXCEPT !.confirmation = c, !.posts = @ + 1]
    /\ UNCHANGED <<clock, env, creds, exPc, parked, siteReq, ocPc, oc, fnVars, wsVars>>

\* lines 103-108 and 390-397: make_request is back and the outcome is printed
WdPostReturn ==
    /\ wdPc = "post_call"
    /\ pc \in {"returned", "raised"}
    /\ wdPc' = "done"
    /\ wd' = [wd EXCEPT !.exit = IF pc = "raised" THEN "crashed"
                                 ELSE IF Truthy(result) /\ HasKey(result, "data")
                                 THEN "created" ELSE "failed"]
    /\ UNCHANGED <<clock, env, creds, exPc, parked, siteReq, ocPc, oc, restVars, fnVars,
                   wsVars>>

----------------------------------------------------------------------------
(* example_create_cancel_order.py: test_create_and_cancel_order            *)

\* an exception left the function: there is no returned value
Raised == [t |-> "raised"]

\* dict.get(key): the value, or None
DictGet(d, k) == IF HasKey(d, k) THEN d.f[k] ELSE PyNone

\* the order the script places (lines 109-113)
ExampleOrder == <<<<"pair", "USDC_ARS">>, <<"side", "buy">>, <<"type", "limit">>>>

\* cancel_order, lines 78-80
CancelData(id) == <<<<"id", id.s>>>>

\* what the server may answer to the create and to the cancel request
DataBody(text, value) == JsonBody(text, PyDict([data |-> value]))
OrderBodies ==
    {OrderBody,
     DataBody("{\"data\":{\"id\":\"B2\"}}", PyDict([id |-> PyStr("B2")])),
     DataBody("{\"data\":{\"id\":\"\"}}", PyDict([id |-> PyStr("")])),
     DataBody("{\"data\":{}}", PyDict(EmptyFn)),
     DataBody("{\"data\":null}", PyNone),
     ErrorBody, NullBody, HtmlBody}

\* lines 128 and 158: not (not response or 'data' not in response)
ResponseHasData(r) == Truthy(r) /\ HasKey(r, "data")

\* lines 104-126 and 30-56: create_order calls make_request
OcCreateCall ==
    /\ ocPc = "start"
    /\ Enter("POST", "/orders", <<>>, SomeData(ExampleOrder))
    /\ ocPc' = "create_call"
    /\ oc' = [oc EXCEPT !.creates = @ + 1]
    /\ UNCHANGED <<clock, env, creds, exPc, parked, siteReq, wdPc, wd, fnVars, wsVars>>

\* lines 58-63 and 128-153: make_request is back; the script returns False
\* without a 'data' entry or without an order id, and sleeps otherwise;
\* the subscript ['data'] and .get raise on a value that is no dict
OcCreateReturn ==
    /\ ocPc = "create_call"
    /\ pc \in {"returned", "raised"}
    /\ IF pc = "raised"
       THEN /\ ocPc' = "done"
            /\ oc' = [oc EXCEPT !.ret = Raised]
       ELSE IF ~ResponseHasData(result)
       THEN /\ ocPc' = "done"
            /\ oc' = [oc EXCEPT !.create = result, !.ret = PyBool(FALSE)]
       ELSE IF ~HasKey(result, "data") \/ result.f["data"].t # "dict"
       THEN /\ ocPc' = "done"
            /\ oc' = [oc EXCEPT !.create = result, !.ret = Raised]
       ELSE LET id == DictGet(result.f["data"], "id") IN
            IF ~Truthy(id)
            THEN /\ ocPc' = "done"
                 /\ oc' = [oc EXCEPT !.create = result, !.orderId = id,
                                     !.ret = PyBool(FALSE)]
            ELSE /\ ocPc' = "sleeping"
                 /\ oc' = [oc EXCEPT !.create = result, !.orderId = id]
    /\ UNCHANGED <<clock, env, creds, exPc, parked, siteReq, wdPc, wd, restVars, fnVars,
                   wsVars>>

\* lines 151-155 and 76-86: after time.sleep(2) cancel_order calls make_request
OcCancelCall ==
    /\ ocPc = "sleeping"
    /\ Enter("DELETE", "/orders", <<>>, SomeData(CancelData(oc.orderId)))
    /\ ocPc' = "cancel_call"
    /\ oc' = [oc EXCEPT !.cancels = @ + 1]
    /\ UNCHANGED <<clock, env, creds, exPc, parked, siteReq, wdPc, wd, fnVars, wsVars>>

\* a script that reports success whatever the cancel returned
OcCancelReturnAlwaysTrue ==
    /\ ocPc = "cancel_call"
    /\ pc \in {"returned", "raised"}
    /\ ocPc' = "done"
    /\ oc' = [oc EXCEPT !.cancel = IF pc = "raised" THEN Raised ELSE result,
                        !.ret = PyBool(TRUE)]
    /\ UNCHANGED <<clock, env, creds, exPc, parked, siteReq, wdPc, wd, restVars, fnVars,
                   wsVars>>

\* lines 88-93 and 157-171: make_request is back and the script returns
OcCancelReturn ==
    /\ ocPc = "cancel_call"
    /\ pc \in {"returned", "raised"}
    /\ ocPc' = "done"
    /\ oc' = [oc EXCEPT !.cancel = IF pc = "raised" THEN Raised ELSE result,
                        !.ret = IF pc = "raised" THEN Raised
                                ELSE IF ~ResponseHasData(result) THEN PyBool(FALSE)
                                ELSE IF HasKey(result, "data")
                                        /\ result.f["data"].t = "dict"
                                THEN PyBool(TRUE) ELSE Raised]
    /\ UNCHANGED <<clock, env, creds, exPc, parked, siteReq, wdPc, wd, restVars, fnVars,
                   wsVars>>

----------------------------------------------------------------------------
(* The signing sites of test_auth.py and test_create_cancel_order.py       *)

\* test_auth.py, lines 34-42: message = timestamp + method + '/v4/' + path
AuthMessage(ts, method, path) == ts \o method \o "/v4/" \o path
AuthSignature(secret, ts, method, path) == B64(Hmac(secret, AuthMessage(ts, method, path)))

\* test_create_cancel_order.py, lines 11-35: the copy of generate_signature
CopiedGenerateSignature(secret, ts, method, path, body) ==
    B64(Hmac(secret, Format(ts) \o method \o path \o body))

\* test_create_cancel_order.py, lines 37-61: the copy of create_auth_headers
CopiedAuthHeaders(key, secret, method, path, body) ==
    [ContentType |-> "application/json", Authorization |-> key, timestamp |-> NowMs,
     signature |-> CopiedGenerateSignature(secret, PyStr(NowMs), method, path, body)]

\* the order test_create_and_cancel_order places (lines 229-233)
TestOrder == <<<<"pair", "USDC_ARS">>, <<"side", "buy">>, <<"type", "limit">>>>
OrderIds == {"A1", "B2"}

\* the test scripts read the environment themselves and stop without both values
SiteCreds == Truthy(env.key) /\ Truthy(env.secret)

\* test_auth.py, get_balances, lines 13-54: the signed GET of the balances
AuthGetBalances ==
    /\ siteReq = NoSiteReq
    /\ SiteCreds
    /\ siteReq' = [site |-> "test_auth", secret |-> env.secret.s,
                   endpoint |-> "/user/balances/",
                   wire |-> [verb |-> "GET", url |-> BaseUrl \o "/user/balances/",
                             headers |-> [ContentType |-> "application/json",
                                          Authorization |-> env.key.s,
                                          timestamp |-> NowMs,
                                          signature |-> AuthSignature(env.secret.s, NowMs,
                                                           "GET", "user/balances/")],
                             query |-> <<>>, body |-> ""]]
    /\ UNCHANGED <<clock, env, creds, exPc, parked, scVars, restVars, fnVars, wsVars>>

\* test_create_cancel_order.py, create_order, lines 76-123: the signed POST
TccCreateOrder ==
    /\ siteReq = NoSiteReq
    /\ SiteCreds
    /\ LET body == Dumps(TestOrder, ",", ":") IN
       siteReq' = [site |-> "create_order", secret |-> env.secret.s, endpoint |-> "/orders",
                   wire |-> [verb |-> "POST", url |-> BaseUrl \o "/orders",
                             headers |-> CopiedAuthHeaders(env.key.s, env.secret.s, "POST",
                                                           "/v4" \o "/orders", body),
                             query |-> <<>>, body |-> body]]
    /\ UNCHANGED <<clock, env, creds, exPc, parked, scVars, restVars, fnVars, wsVars>>

\* test_create_cancel_order.py, cancel_order, lines 163-184: the signed DELETE
\* of the order whose id the answer to the create request held
TccCancelOrder(id) ==
    /\ siteReq.site = "create_order"
    /\ LET body == Dumps(<<<<"id", id>>>>, ",", ":") IN
       siteReq' = [site |-> "cancel_order", secret |-> env.secret.s, endpoint |-> "/orders",
                   wire |-> [verb |-> "DELETE", url |-> BaseUrl \o "/orders",
                             headers |-> CopiedAuthHeaders(env.key.s, env.secret.s, "DELETE",
                                                           "/v4" \o "/orders", body),
                             query |-> <<>>, body |-> body]]
    /\ UNCHANGED <<clock, env, creds, exPc, parked, scVars, restVars, fnVars, wsVars>>

----------------------------------------------------------------------------
(* Specifications *)

NoAltOut == [msg |-> "", sig |-> B64(Hmac("", "")), done |-> FALSE]

FnIdle ==
    /\ sigIn = NoSigArgs /\ sigOuts = <<>> /\ sigMsgs = <<>> /\ sigAt = <<>>
    /\ sigAlt = NoSigArgs /\ altOut = NoAltOut

\* one caller issues REST calls through make_request
Init ==
    /\ clock = 9
    /\ env = FullEnv
    /\ ExReady
    /\ RestIdle
    /\ FnIdle
    /\ WsIdle

Next ==
    \/ Tick
    \/ \E m \in Methods, e \in Endpoints, p \in ParamSets, d \in DataArgs : Call(m, e, p, d)
    \/ ReadClock
    \/ Sign
    \/ BuildHeaders
    \/ Dispatch
    \/ \E st \in Statuses, b \in Bodies : ServerResponds(st, b)
    \/ \E exc \in TransportErrors : TransportFails(exc)
    \/ HandleResponse
    \/ HandleException

Spec == Init /\ [][Next]_vars

\* generate_signature is applied to every argument tuple of SigInputs
SignInit ==
    /\ clock = 9
    /\ env = FullEnv
    /\ ExReady
    /\ RestIdle
    /\ sigIn \in SigInputs
    /\ sigOuts = <<>>
    /\ sigMsgs = <<>>
    /\ sigAt = <<>>
    /\ sigAlt = NoSigArgs
    /\ altOut = NoAltOut
    /\ WsIdle

SignNext == Tick \/ SigCall

SignSpec == SignInit /\ [][SignNext]_vars

\* generate_signature is applied to every pair of argument tuples
SignPairInit ==
    /\ clock = 9
    /\ env = FullEnv
    /\ ExReady
    /\ RestIdle
    /\ sigIn \in SigInputs
    /\ sigOuts = <<>>
    /\ sigMsgs = <<>>
    /\ sigAt = <<>>
    /\ sigAlt \in SigInputs
    /\ altOut = NoAltOut
    /\ WsIdle

SignPairNext == SigCall \/ SigCallAlt

SignPairSpec == SignPairInit /\ [][SignPairNext]_vars

\* one run of test_websocket.py
WsInit ==
    /\ clock = 9
    /\ env \in Envs
    /\ ExStart
    /\ RestIdle
    /\ FnIdle
    /\ WsIdle

WsNext ==
    \/ Tick
    \/ WsStart
    \/ TicketRequest
    \/ \E resp \in TicketAnswers : TicketAnswer(resp)
    \/ TicketHandle
    \/ MainBranch
    \/ Connect
    \/ Subscribe
    \/ AckArrives
    \/ AckFails
    \/ StreamMessage
    \/ StreamTimeout
    \/ StreamFails
    \/ ServerSend
    \/ ServerDrop

WsSpec == WsInit /\ [][WsNext]_vars

\* the event loop resumes the coroutine whenever a receive can end: a message
\* is queued, the connection was dropped, or the timer of wait_for fired
WsFairSpec == WsSpec /\ WF_vars(Resume)

\* one process runs either an example script, from its first line, or
\* test_websocket.py
FlowInit ==
    /\ clock = 9
    /\ env \in Envs
    /\ ExStart
    /\ RestIdle
    /\ FnIdle
    /\ WsIdle

FlowNext ==
    \/ Tick
    \/ wsPc = "start" /\ GetCredentials
    \/ wsPc = "start" /\ Next
    \/ exPc = "start" /\ WsNext

FlowSpec == FlowInit /\ [][FlowNext]_vars

\* two threads of one caller each issue a make_request call
ConcCalls == {<<"GET", NoData>>, <<"POST", SomeData(<<<<"id", "A1">>>>)>>,
              <<"POST", NoData>>}

ConcInit ==
    /\ clock = 9
    /\ env = FullEnv
    /\ ExReady
    /\ RestIdle
    /\ FnIdle
    /\ WsIdle

ConcNext ==
    \/ Tick
    \/ \E c \in ConcCalls : Call(c[1], "/orders", <<>>, c[2])
    \/ ReadClock
    \/ Sign
    \/ BuildHeaders
    \/ Dispatch
    \/ Switch

ConcSpec == ConcInit /\ [][ConcNext]_vars

\* one process runs test_websocket.py, test_auth.py or
\* test_create_cancel_order.py
SitesInit ==
    /\ clock = 9
    /\ env \in Envs
    /\ ExStart
    /\ RestIdle
    /\ FnIdle
    /\ WsIdle

SitesNext ==
    \/ Tick
    \/ siteReq = NoSiteReq /\ WsNext
    \/ wsPc = "start" /\ AuthGetBalances
    \/ wsPc = "start" /\ TccCreateOrder
    \/ wsPc = "start" /\ \E id \in OrderIds : TccCancelOrder(id)

SitesSpec == SitesInit /\ [][SitesNext]_vars

\* the steps of a make_request call once it was entered
RestSteps ==
    \/ ReadClock
    \/ Sign
    \/ BuildHeaders
    \/ Dispatch
    \/ \E st \in Statuses, b \in Bodies : ServerResponds(st, b)
    \/ \E exc \in TransportErrors : TransportFails(exc)
    \/ HandleResponse
    \/ HandleException

\* one run of example_withdrawals.py --real
WdInit ==
    /\ clock = 9
    /\ env \in Envs
    /\ ExStart
    /\ RestIdle
    /\ FnIdle
    /\ WsIdle

WdNext ==
    \/ Tick
    \/ GetCredentials
    \/ \E cur \in Currencies : WdFeeCall(cur)
    \/ RestSteps
    \/ WdFeeReturn
    \/ \E amountOk \in BOOLEAN, c \in Confirmations : WdConfirm(amountOk, c)
    \/ WdPostReturn

WdSpec == WdInit /\ [][WdNext]_vars

\* one run of example_create_cancel_order.py
OcInit ==
    /\ clock = 9
    /\ env \in Envs
    /\ ExStart
    /\ RestIdle
    /\ FnIdle
    /\ WsIdle

OcNext ==
    \/ Tick
    \/ GetCredentials
    \/ OcCreateCall
    \/ ReadClock
    \/ Sign
    \/ BuildHeaders
    \/ Dispatch
    \/ \E st \in Statuses, b \in OrderBodies : ServerResponds(st, b)
    \/ \E exc \in TransportErrors : TransportFails(exc)
    \/ HandleResponse
    \/ HandleException
    \/ OcCreateReturn
    \/ OcCancelCall
    \/ OcCancelReturn

OcSpec == OcInit /\ [][OcNext]_vars

----------------------------------------------------------------------------
(* Properties of the request signer and of make_request *)

HeadersBuilt == pc \in {"headers", "sent", "responded", "returned", "raised"}
Ended == pc \in {"returned", "raised"} /\ response.kind # "none"
GotStatus(st) == response.kind = "http" /\ response.status = st
GotErrorStatus == response.kind = "http" /\ response.status # 200
GotNoResponse == response.kind = "exc"

\* C1: create_auth_headers reads the wall clock exactly once, and that one
\* value is the timestamp given to generate_signature, the 'timestamp' header
\* and the second element of the returned pair.
C1_OneTimestamp ==
    /\ clockReads <= 1
    /\ HeadersBuilt =>
          /\ clockReads = 1
          /\ sigArgs.ts = PyStr(timestamp)
          /\ headers.timestamp = timestamp
          /\ retTs = timestamp
          /\ headers.signature = GenerateSignature(args.secret, PyStr(headers.timestamp),
                                    args.method, Path(args.endpoint), payload)

\* the headers were built after the clock had moved on from the value read
C1_Witness ==
    /\ pc = "headers"
    /\ headers.timestamp # NowMs
    /\ headers.timestamp = Format(sigArgs.ts)
    /\ retTs = headers.timestamp

\* C2: whatever the method and the data argument, the payload string that was
\* signed is the string transmitted as the body of the request.
C2_SignedIsSent == sends > 0 => wire.body = sigArgs.payload

\* C3: the message generate_signature hashes is str(timestamp), method, path
\* and payload concatenated in that order, with nothing between or around them.
C3_CanonicalMessage ==
    \A i \in 1..Len(sigOuts) :
        /\ sigMsgs[i] = Format(sigIn.ts) \o sigIn.method \o sigIn.path \o sigIn.payload
        /\ sigOuts[i] = B64(Hmac(sigIn.secret, sigMsgs[i]))

\* generate_signature ran on an integer timestamp and a non-empty payload
C3_Witness ==
    /\ Len(sigOuts) > 0
    /\ sigIn.ts = PyInt(9)
    /\ sigIn.payload # ""
    /\ sigMsgs[1] = "9" \o sigIn.method \o sigIn.path \o sigIn.payload

C5_StatusDecides ==
    Ended =>
       /\ GotStatus(200) =>
             pc = "returned" /\ response.body.isJson /\ result = response.body.value
       /\ (GotErrorStatus \/ GotNoResponse) => pc = "returned" /\ result = PyNone

\* C5, amended: HTTP 200 with a JSON body returns the parsed body; any other
\* status and any transport failure returns None; HTTP 200 with a body that is
\* no JSON document hands no data to the caller either.
C5_JsonOn200 ==
    Ended =>
       /\ (GotStatus(200) /\ response.body.isJson) =>
             pc = "returned" /\ result = response.body.value
       /\ (GotStatus(200) /\ ~response.body.isJson) => result = PyNone
       /\ (GotErrorStatus \/ GotNoResponse) => pc = "returned" /\ result = PyNone

\* after a call that failed on the transport, a 200 answer was returned to the
\* caller as its parsed body
C5_Witness ==
    /\ pc = "returned"
    /\ GotStatus(200)
    /\ result = OrderBody.value
    /\ prev.via = "exc"
    /\ prev.value = PyNone

\* C6 as stated: a 401 ends the call without a fault, and the caller can tell
\* an error status from a transport failure by what the call handed back.
C6_Distinguished ==
    /\ (Ended /\ GotStatus(401)) => pc = "returned"
    /\ (Ended /\ GotNoResponse) => pc = "returned"
    /\ (Ended /\ prev.ended # "none") =>
          ((GotStatus(401) /\ prev.via = "exc") => Outcome.value # prev.value)

\* C6, amended: a 401 and a transport failure both end the call without a
\* fault and both hand back None; they differ only in what is printed: the
\* status code and the error body, or the exception.
C6_SameResult ==
    /\ (Ended /\ GotErrorStatus) =>
          /\ pc = "returned"
          /\ result = PyNone
          /\ printed = <<"Response status code: " \o Str(response.status),
                         "API request failed with status code: " \o Str(response.status),
                         (IF response.body.isJson THEN "Error response: "
                          ELSE "Error response text: ") \o response.body.text>>
    /\ (Ended /\ GotNoResponse) =>
          /\ pc = "returned"
          /\ result = PyNone
          /\ printed = <<"Error making request: " \o response.exc>>

\* a 401 after a transport failure: the caller was handed the same value twice
C6_Witness ==
    /\ pc = "returned"
    /\ GotStatus(401)
    /\ prev.ended = "returned"
    /\ prev.via = "exc"
    /\ result = prev.value
    /\ printed[2] = "API request failed with status code: 401"

----------------------------------------------------------------------------
(* Properties of the WebSocket flow *)

\* the answer of the ticket endpoint yields no ticket main can use
TicketFailed ==
    \/ wsResp.kind = "exc"
    \/ /\ wsResp.kind = "http"
       /\ \/ RaisesForStatus(wsResp.status)
          \/ ~wsResp.body.isJson
          \/ ExtractTicket(wsResp.body.value).error
          \/ ~Truthy(ExtractTicket(wsResp.body.value).ticket)

\* C7: if ticket issuance fails, or the answer holds no usable ticket,
\* connect_and_subscribe is never called and no socket connection is
\* attempted: the flow ends after the ticket request.
C7_NoTicketNoConnect ==
    TicketFailed =>
       /\ ~invoked
       /\ connects = 0
       /\ sock = "none"
       /\ wsPc \in {"ticket_resp", "ticket_done", "done"}

\* the ticket request was refused with 401 and the flow ended without a socket
C7_Witness ==
    /\ wsPc = "done"
    /\ wsExit = "no_ticket"
    /\ wsResp.kind = "http"
    /\ wsResp.status = 401
    /\ wsHttpSends = 1
    /\ connects = 0

\* C8: once the socket was opened, every way out of connect_and_subscribe
\* (the end of the receive loop, an exception from send, from the
\* acknowledgement receive or from a streaming receive) leaves it closed.
C8_SocketReleased ==
    /\ wsPc = "done" => sock # "open"
    /\ wsExit \in {"completed", "send_failed", "ack_failed", "recv_failed"} =>
          sock = "closed"
    /\ sock = "open" => wsPc \in {"connected", "await_ack", "streaming"}

\* a streaming receive raised in the middle of the loop and the socket is closed
C8_Witness ==
    /\ wsPc = "done"
    /\ wsExit = "recv_failed"
    /\ attempts = 2
    /\ sock = "closed"

\* C9: every receive of the flow, the wait for the acknowledgement included,
\* has a timeout, so the flow can always go on by itself from a receive.
C9_ReceivesBounded ==
    wsPc \in {"await_ack", "streaming"} =>
       /\ recvWait # "unbounded"
       /\ ENABLED Resume

\* C10: a timeout of a streaming receive neither closes the socket nor ends
\* the loop; the loop ends after RecvBudget attempts, and a run that ends
\* without an exception made exactly RecvBudget attempts.
C10_TimeoutContinues ==
    /\ attempts <= RecvBudget
    /\ (lastRecv = "timeout" /\ wsPc # "done") => (wsPc = "streaming" /\ sock = "open")
    /\ (lastRecv = "timeout" /\ wsPc = "done") => wsExit = "completed"
    /\ wsExit = "completed" => (attempts = RecvBudget /\ acks = 1 /\ sock = "closed")
    /\ wsPc = "streaming" => (attempts \in 1..RecvBudget /\ recvWait = StreamWait)

\* a receive timed out before the budget was used up and the flow is still
\* receiving on the open socket
C10_Witness ==
    /\ wsPc = "streaming"
    /\ lastRecv = "timeout"
    /\ attempts = 2
    /\ sock = "open"

\* C11: once the flow is streaming it ends in Closed with the socket released,
\* whether the receive budget runs out without a message or a receive raises
\* in the middle of the loop.
C11_StreamingEndsClosed ==
    (wsPc = "streaming") ~> (wsPc = "done" /\ sock = "closed")

\* all receive attempts of the budget timed out and the socket is closed
C11_Witness ==
    /\ wsPc = "done"
    /\ wsExit = "completed"
    /\ timeouts = RecvBudget
    /\ sock = "closed"

\* C12: for every GET issued through make_request the signed payload is the
\* empty string: the query parameters are in the URL only, and nothing, a data
\* argument included, makes the signed payload of a GET non-empty.
C12_GetSignsEmpty ==
    (sends > 0 /\ wire.verb = "GET") =>
       /\ sigArgs.payload = ""
       /\ message = timestamp \o "GET" \o Path(args.endpoint)
       /\ wire.query = args.params

\* C14 as stated: a failure inside connect_and_subscribe reaches its caller
\* as a result value that differs from the one a completed run returns.
C14_FailureReturned ==
    wsExit \in ConnFailures =>
       /\ wsPc = "done"
       /\ connRet # ReturnValue("completed")

\* C14, amended: a failure inside connect_and_subscribe is caught inside it
\* and printed; the function then returns None, as a completed run does, so
\* only the printed line tells the two apart.
C14_FailurePrinted ==
    /\ wsExit \in ConnFailures =>
          /\ wsPc = "done"
          /\ connRet = PyNone
          /\ connPrinted = "Error in WebSocket connection: " \o RaisedBy(wsExit)
    /\ wsExit = "completed" =>
          /\ connRet = PyNone
          /\ connPrinted = "Test completed"
    /\ ~invoked => (connRet = NotReturned /\ connPrinted = "")

\* the acknowledgement receive raised; main was handed None
C14_Witness ==
    /\ wsPc = "done"
    /\ wsExit = "ack_failed"
    /\ connRet = PyNone
    /\ connPrinted = "Error in WebSocket connection: ConnectionClosed"

\* the place of a position of the flow in the order Unauthenticated,
\* TicketRequested, Connected, Subscribed, Streaming, Closed
WsRank(p) ==
    CASE p = "start" -> 0
      [] p \in {"ticket_call", "ticket_wait", "ticket_resp", "ticket_done", "connect"} -> 1
      [] p = "connected" -> 2
      [] p = "await_ack" -> 3
      [] p = "streaming" -> 4
      [] OTHER -> 5

\* C16: the flow moves through its states in order only: the socket is
\* opened only with a ticket obtained, the subscribe message is sent only on
\* the open socket, exactly one acknowledgement is received after it, and no
\* streaming receive starts before that acknowledgement.
C16_StateOrder ==
    /\ [](/\ sock # "none" =>
               (invoked /\ Truthy(ticket) /\ connArg = ticket /\ wsHttpSends = 1)
          /\ subMsg # NoSubMsg => (sock # "none" /\ subMsg.ticket = ticket)
          /\ acks <= 1
          /\ attempts > 0 => acks = 1
          /\ wsPc = "streaming" => (acks = 1 /\ subMsg # NoSubMsg /\ sock = "open")
          /\ wsPc = "await_ack" => (acks = 0 /\ attempts = 0 /\ subMsg # NoSubMsg))
    /\ [][/\ WsRank(wsPc') >= WsRank(wsPc)
          /\ subMsg' # subMsg => (sock = "open" /\ wsPc = "connected")
          /\ sock' # sock => (sock = "none" /\ sock' = "open" /\ wsPc = "connect")
                                \/ (sock = "open" /\ sock' = "closed")]_vars

\* the first streaming receive started after the one acknowledgement
C16_Witness ==
    /\ wsPc = "streaming"
    /\ attempts = 1
    /\ acks = 1
    /\ subMsg.ticket = PyStr("T1")
    /\ sock = "open"

----------------------------------------------------------------------------
(* Claims about the scripts as a whole (FlowSpec)                          *)

\* C13: nothing is retried: one make_request call puts at most one HTTP
\* request on the wire, get_websocket_ticket at most one, one run of the
\* WebSocket flow opens at most one socket, and a failed operation ends
\* without another attempt.
C13_NoRetry ==
    /\ [](/\ sends <= 1
          /\ wsHttpSends <= 1
          /\ connects <= 1
          /\ TicketFailed =>
                 (wsPc \in {"ticket_resp", "ticket_done", "done"} /\ wsHttpSends = 1)
          /\ wsExit \in ConnFailures => (wsPc = "done" /\ connects = 1))
    /\ [][/\ sends' > sends => (sends = 0 /\ pc = "headers")
          /\ (pc = "responded" /\ pc' # pc) =>
                 (pc' \in {"returned", "raised"} /\ sends' = sends /\ wire' = wire)
          /\ wsHttpSends' >= wsHttpSends
          /\ connects' >= connects
          /\ wsPc = "done" => wsPc' = "done"]_vars

\* a make_request call that timed out has ended after its one request
C13_Witness ==
    /\ pc = "returned"
    /\ response.kind = "exc"
    /\ response.exc = "Timeout"
    /\ sends = 1
    /\ result = PyNone

\* what os.environ holds, as the pair of the two variables
EnvPair == PyTuple(<<env.key, env.secret>>)

\* C15: with the key or the secret missing or empty in the environment,
\* get_api_credentials returns (None, None), never a pair with one usable
\* value, and neither an example script nor the WebSocket flow sends an HTTP
\* request or opens a socket.
C15_NoCredentialsNoAttempt ==
    /\ creds # NotReturned =>
          /\ creds = PyTuple(<<PyNone, PyNone>>) \/ CredsUsable(creds)
          /\ CredsUsable(EnvPair) => creds = EnvPair
          /\ ~CredsUsable(EnvPair) => creds = PyTuple(<<PyNone, PyNone>>)
    /\ ~CredsUsable(EnvPair) =>
          /\ exPc \in {"start", "aborted"}
          /\ pc = "idle" /\ sends = 0 /\ wire = NoWire
          /\ wsPc \in {"start", "done"}
          /\ wsHttpSends = 0 /\ wsHttp = NoWire
          /\ ~invoked /\ connects = 0 /\ sock = "none" /\ handshake = NoHandshake

\* a script that found the key but an empty secret has stopped
C15_Witness ==
    /\ env.key = PyStr(ApiKey)
    /\ env.secret = PyStr("")
    /\ creds = PyTuple(<<PyNone, PyNone>>)
    /\ exPc = "aborted"
    /\ sends = 0

\* the strings of a request put on the wire, the signature header aside
WireStrings(w) ==
    {w.url, w.body, w.headers.ContentType, w.headers.Authorization, w.headers.timestamp}
        \cup {w.query[i][1] : i \in 1..Len(w.query)}
        \cup {w.query[i][2] : i \in 1..Len(w.query)}

\* C17: the secret is the HMAC key and nothing else: no URL, header value,
\* query parameter or body of a REST request, of the ticket request, of the
\* WebSocket handshake or of the subscribe message is the secret; what is
\* sent is the key, the timestamp and the signature made with the secret.
C17_SecretNotSent ==
    /\ sends > 0 =>
          /\ args.secret \notin WireStrings(wire)
          /\ wire.headers.Authorization = args.key
          /\ wire.headers.timestamp = timestamp
          /\ wire.headers.signature = B64(Hmac(args.secret, message))
    /\ wsHttpSends > 0 =>
          /\ wsCreds.secret.s \notin WireStrings(wsHttp)
          /\ wsHttp.headers.Authorization = wsCreds.key.s
          /\ wsHttp.headers.signature =
                WsSignature(wsCreds.secret.s, wsHttp.headers.timestamp, "POST", "ticket")
    /\ connects > 0 =>
          /\ wsCreds.secret.s \notin {handshake.Authorization, handshake.timestamp, WssUrl}
          /\ handshake.Authorization = wsCreds.key.s
          /\ handshake.signature =
                WsSignature(wsCreds.secret.s, handshake.timestamp, "GET", "ws")
    /\ subMsg # NoSubMsg =>
          /\ subMsg.ticket # wsCreds.secret
          /\ subMsg.method # wsCreds.secret.s
          /\ \A i \in 1..Len(subMsg.topics) : subMsg.topics[i] # wsCreds.secret.s

\* a signed POST with a body is on the wire
C17_Witness ==
    /\ sends = 1
    /\ wire.verb = "POST"
    /\ wire.body # ""
    /\ wire.headers.Authorization = ApiKey
    /\ wire.headers.signature = B64(Hmac(ApiSecret, message))

----------------------------------------------------------------------------
(* Two make_request calls in two threads (ConcSpec)                        *)

\* the request of a call is made of that call's own values
OwnRequest(c) ==
    c.pc \in {"headers", "sent"} =>
        /\ c.clockReads = 1
        /\ c.headers.timestamp = c.timestamp
        /\ c.headers.Authorization = c.args.key
        /\ c.headers.signature =
              GenerateSignature(c.args.secret, PyStr(c.timestamp), c.args.method,
                                Path(c.args.endpoint), c.payload)
        /\ c.pc = "sent" =>
              (c.wire.headers = c.headers /\ c.wire.verb = c.args.method)

\* C18: two make_request calls interleaved in any order share no mutable
\* state: the request of each carries the timestamp that call read and the
\* signature that call computed over that timestamp and its own method,
\* path and payload.
C18_CallsIndependent == OwnRequest(Locals) /\ OwnRequest(parked)

\* both calls have sent, with different timestamps, one while the other was
\* under way
C18_Witness ==
    /\ pc = "sent"
    /\ parked.pc = "sent"
    /\ args.method = "GET"
    /\ parked.args.method = "POST"
    /\ timestamp = "10"
    /\ parked.timestamp = "9"
    /\ parked.wire.body # ""

----------------------------------------------------------------------------
(* generate_signature on two argument tuples (SignPairSpec)                *)

\* the fields of the four signed inputs in which two argument tuples differ;
\* a timestamp is what str() makes of it
SigDiff(a, b) ==
    {f \in {"ts"} : Format(a.ts) # Format(b.ts)}
        \cup {f \in {"method", "path", "payload"} : a[f] # b[f]}

\* C20: two argument tuples with the same secret that differ in exactly one
\* of timestamp, method, path and payload have different canonical messages
\* and different signatures.
C20_OneFieldChanges ==
    (Len(sigOuts) > 0 /\ altOut.done /\ sigIn.secret = sigAlt.secret
        /\ Cardinality(SigDiff(sigIn, sigAlt)) = 1) =>
       \A i \in 1..Len(sigOuts) :
           sigMsgs[i] # altOut.msg /\ sigOuts[i] # altOut.sig

\* two calls whose arguments differ in the payload only gave two signatures
C20_Witness ==
    /\ Len(sigOuts) > 0
    /\ altOut.done
    /\ sigIn.secret = sigAlt.secret
    /\ SigDiff(sigIn, sigAlt) = {"payload"}
    /\ sigOuts[1] # altOut.sig

----------------------------------------------------------------------------
(* Claims about the payload, the ticket and the signing sites              *)

\* the compact serialisation of the body object a call was given, "" when
\* it was given none
CompactBody(d) == IF d.some THEN Dumps(d.obj, ",", ":") ELSE ""

\* C21: whenever a body object is passed to make_request, the empty object
\* included, the payload that is signed and transmitted is its compact JSON
\* serialisation; the payload is empty only when no body object was passed.
C21_CompactJson ==
    pc # "idle" =>
       /\ payload = CompactBody(args.data)
       /\ sigArgs # NoSigArgs => sigArgs.payload = CompactBody(args.data)
       /\ sends > 0 => wire.body = CompactBody(args.data)

\* C22: get_websocket_ticket returns a ticket only when the signed POST was
\* answered with HTTP 200 and a body that holds data.ticket; any other
\* status, other 2xx codes included, a transport failure or a body without
\* data.ticket gives no ticket.
C22_TicketOn200Only ==
    ticket # PyNone =>
       /\ wsHttpSends = 1
       /\ wsResp.kind = "http"
       /\ wsResp.status = 200
       /\ wsResp.body.isJson
       /\ ~ExtractTicket(wsResp.body.value).error
       /\ ticket = ExtractTicket(wsResp.body.value).ticket

\* C23: every signing site signs what generate_signature of
\* ripio_api_utils.py returns for the same secret, timestamp and method, the
\* path "/v4" + endpoint and the same payload: the ticket request and the
\* socket handshake (logical endpoint "/ws") of test_websocket.py, the
\* balances request of test_auth.py and the requests of
\* test_create_cancel_order.py; the handshake carries the key, the timestamp
\* that was signed and the signature.
C23_SitesAgree ==
    /\ wsHttpSends > 0 =>
          /\ wsHttp.url = Url("/ticket")
          /\ wsHttp.headers.signature =
                GenerateSignature(wsCreds.secret.s, PyStr(wsHttp.headers.timestamp),
                                  wsHttp.verb, Path("/ticket"), wsHttp.body)
    /\ connects > 0 =>
          /\ handshake.Authorization = wsCreds.key.s
          /\ handshake.timestamp # ""
          /\ handshake.signature =
                GenerateSignature(wsCreds.secret.s, PyStr(handshake.timestamp),
                                  "GET", Path("/ws"), "")
    /\ siteReq # NoSiteReq =>
          /\ siteReq.wire.url = Url(siteReq.endpoint)
          /\ siteReq.wire.headers.signature =
                GenerateSignature(siteReq.secret, PyStr(siteReq.wire.headers.timestamp),
                                  siteReq.wire.verb, Path(siteReq.endpoint),
                                  siteReq.wire.body)

\* the handshake was signed at a later time than the ticket request
C23_Witness ==
    /\ connects = 1
    /\ sock = "open"
    /\ wsHttp.headers.timestamp = "9"
    /\ handshake.timestamp = "10"
    /\ handshake.signature = GenerateSignature(ApiSecret, PyStr("10"), "GET", "/v4/ws", "")

\* C24: the subscribe message has method "subscribe", a topic list, an
\* integer id and, as its ticket, exactly the ticket the ticket request of
\* this run returned; no other ticket value is ever sent.
C24_SubscribeTicket ==
    subMsg # NoSubMsg =>
       /\ subMsg.method = "subscribe"
       /\ Len(subMsg.topics) >= 1
       /\ subMsg.id \in Nat
       /\ subMsg.ticket = ticket
       /\ Truthy(subMsg.ticket)
       /\ wsHttpSends = 1
       /\ wsResp.kind = "http"
       /\ wsResp.body.isJson
       /\ subMsg.ticket = ExtractTicket(wsResp.body.value).ticket

\* the subscribe message went out with the ticket of this run
C24_Witness ==
    /\ wsPc = "await_ack"
    /\ subMsg.method = "subscribe"
    /\ subMsg.ticket = PyStr("T1")
    /\ ticket = PyStr("T1")
    /\ subMsg.id = clock

\* C25: for a method other than GET, POST and DELETE make_request sends no
\* HTTP request and returns None; a request is only ever sent with one of
\* these three methods.
C25_UnsupportedMethod ==
    /\ sends > 0 => (wire.verb \in {"GET", "POST", "DELETE"} /\ wire.verb = args.method)
    /\ (pc # "idle" /\ args.method \notin {"GET", "POST", "DELETE"}) =>
          /\ sends = 0
          /\ wire = NoWire
          /\ response = NoResponse
          /\ pc # "raised"
          /\ pc = "returned" => result = PyNone

\* a PUT was refused after its headers were built
C25_Witness ==
    /\ pc = "returned"
    /\ args.method = "PUT"
    /\ sends = 0
    /\ result = PyNone
    /\ printed = <<"Unsupported HTTP method: PUT">>

----------------------------------------------------------------------------
(* Claims about the callers of make_request                                *)

\* the call failed: a status other than 200, no response, or a method that
\* is not dispatched
CallFailed == GotErrorStatus \/ GotNoResponse \/ ~Supported(args.method)

\* C26: make_request returns None if and only if the call failed; an HTTP 200
\* response never yields None or a value that `if response:` takes for a
\* failed call.
C26_NoneIffFailed ==
    pc = "returned" =>
       /\ result = PyNone <=> CallFailed
       /\ GotStatus(200) => Truthy(result)

\* a POST to /withdrawals is on the wire
WithdrawalSent == sends > 0 /\ wire.verb = "POST" /\ wire.url = Url("/withdrawals")

\* C27: create_real_withdrawal_with_confirmation sends the withdrawal POST
\* only after the fee lookup for the chosen currency succeeded and the user
\* typed exactly "YES"; with missing credentials, a failed fee lookup or any
\* other answer no POST to /withdrawals is sent, and at most one is sent in
\* a run.
C27_ConfirmedWithdrawal ==
    /\ [](/\ wd.posts <= 1
          /\ sends <= 1
          /\ (sends > 0 /\ wire.verb = "POST") => (WithdrawalSent /\ wd.posts = 1)
          /\ (wd.posts = 0 /\ sends > 0) =>
                (wire.verb = "GET" /\ wire.url = Url(FeeEndpoint(wd.currency)))
          /\ wd.posts = 1 =>
                /\ CredsUsable(creds)
                /\ wd.confirmation = "YES"
                /\ Truthy(wd.fees)
                /\ wd.feeResp.kind = "http"
                /\ wd.feeResp.status = 200
                /\ wire.body \in {"", Dumps(WithdrawalData(wd.currency), ",", ":")}
          /\ (~CredsUsable(EnvPair) \/ wd.exit \in {"no_fees", "cancelled"}) =>
                (wd.posts = 0 /\ ~WithdrawalSent))
    /\ [][wd'.posts > wd.posts => (wd.posts = 0 /\ wdPc = "ask")]_vars

\* the withdrawal was confirmed, sent once and accepted
C27_Witness ==
    /\ wdPc = "done"
    /\ wd.exit = "created"
    /\ wd.confirmation = "YES"
    /\ wd.posts = 1
    /\ WithdrawalSent
    /\ wire.body = Dumps(WithdrawalData("ETH"), ",", ":")

\* the create request returned a 'data' object with a non-empty order id
CreateSucceeded ==
    /\ Truthy(oc.create)
    /\ HasKey(oc.create, "data")
    /\ oc.create.f["data"].t = "dict"
    /\ oc.orderId = DictGet(oc.create.f["data"], "id")
    /\ Truthy(oc.orderId)

\* C28: test_create_and_cancel_order sends the DELETE only after the POST
\* returned a 'data' object with a non-empty order id, the DELETE carries
\* exactly that id, at most one create and one cancel are sent in a run, and
\* the run returns True only if both the create and the cancel succeeded.
C28_CancelAfterCreate ==
    /\ [](/\ oc.creates <= 1
          /\ oc.cancels <= 1
          /\ sends <= 1
          /\ oc.creates = 0 => sends = 0
          /\ (sends > 0 /\ oc.cancels = 0) =>
                (wire.verb = "POST" /\ wire.url = Url("/orders"))
          /\ oc.cancels = 1 =>
                /\ oc.creates = 1
                /\ CreateSucceeded
                /\ args.method = "DELETE"
                /\ args.data = SomeData(<<<<"id", oc.orderId.s>>>>)
                /\ sends > 0 =>
                      /\ wire.verb = "DELETE"
                      /\ wire.url = Url("/orders")
                      /\ wire.body = Dumps(<<<<"id", oc.orderId.s>>>>, ",", ":")
          /\ oc.ret = PyBool(TRUE) =>
                /\ CreateSucceeded
                /\ oc.cancels = 1
                /\ GotStatus(200)
                /\ oc.cancel = result
                /\ Truthy(oc.cancel)
                /\ HasKey(oc.cancel, "data"))
    /\ [][oc'.cancels > oc.cancels => (oc.cancels = 0 /\ ocPc = "sleeping")]_vars

\* the order B2 was created, then cancelled, and the run returned True
C28_Witness ==
    /\ ocPc = "done"
    /\ oc.ret = PyBool(TRUE)
    /\ oc.orderId = PyStr("B2")
    /\ wire.verb = "DELETE"
    /\ wire.body = "{\"id\":\"B2\"}"
    /\ sends = 1
====
